---- MODULE Spec2Model ----
(***************************************************************************)
(* Reviewer assignment of policy-bot: src/reviewer/reviewer.go.            *)
(*                                                                         *)
(* The file holds two revisions of package reviewer.  Lines 15-162 are the *)
(* revision whose FindRandomRequesters takes an injected *rand.Rand;       *)
(* lines 178-395 are the revision that talks to a *github.Client.          *)
(*                                                                         *)
(* Four state machines share the variables below:                          *)
(*   SpecWalk    one call of findLeafChildren on a bounded tree,           *)
(*   SpecSample  one call of selectRandomUsers, one random draw per step,  *)
(*   Spec        one call of FindRandomRequesters (lines 93-162), which    *)
(*               runs the sampler's steps for every pending leaf,          *)
(*   SpecClient  one call of FindRandomRequesters (lines 324-395).         *)
(* Strings are Go strings; Go's nil slice and the empty slice are both     *)
(* << >>; a Go map is a TLA+ function, and its unspecified iteration order *)
(* is a nondeterministic choice.                                           *)
(***************************************************************************)
EXTENDS Integers, Sequences, FiniteSets, TLC

VARIABLES
    \* findLeafChildren
    result,          \* the tree handed to findLeafChildren, or NoTree
    leafNodes,       \* its return value
    wpc,             \* "idle" | "call" | "done"
    \* selectRandomUsers
    n, users,        \* the arguments
    i, j,            \* the loop counters of lines 57-58
    selected,        \* map[int]bool of line 56, as the set of true keys
    selections,      \* the slice being built / returned
    collisions,      \* number of times line 71 ran during the current call
    spc,             \* "idle" | "call" | "loop" | "ret" | "panic"
    \* FindRandomRequesters
    author,          \* prctx.Author()
    pendingLeafNodes,\* lines 95 and 326: the leaves (node ids; records in the second revision)
    k,               \* position of the range loop of line 100 (1-based)
    child,           \* what is kept of the current leaf's ReviewRequestRule
    allUsers,        \* the candidate pool of the current leaf
    teamErr, orgErr, \* whether the team / organization listing of this leaf failed
                     \* (the err of lines 105 and 114)
    allCollaboratorPermissions, \* result of ListRepositoryCollaborators
    allUserList,     \* line 146
    requestedUsers,  \* line 96
    ret,             \* the pair returned to the caller, or NoReturn
    pc

vars == << result, leafNodes, wpc, n, users, i, j, selected, selections,
           collisions, spc, author, pendingLeafNodes, k, child, allUsers,
           teamErr, orgErr, allCollaboratorPermissions,
           allUserList, requestedUsers, ret, pc >>

walkVars == << result, leafNodes, wpc >>
sampleVars == << n, users, i, j, selected, selections, collisions, spc >>
findVars == << author, pendingLeafNodes, k, child, allUsers, teamErr, orgErr, allCollaboratorPermissions, allUserList,
               requestedUsers, ret, pc >>

----------------------------------------------------------------------------
\* Bounds of the model.

\* Largest number of nodes of a result tree.
MaxNodes == 4
\* Largest RequiredCount of a rule / largest n handed to the sampler.
MaxCount == 2

\* Largest number of pending leaves of the tree handed to FindRandomRequesters.
MaxLeaves == 2

\* Largest spare capacity (cap - len) of a rule's RequestedUsers slice.
MaxSpare == 1

\* Program constants.
\* The factor of the retry budget, "n*5" on line 61.
RetryFactor == 5

----------------------------------------------------------------------------
\* Generic helpers.

Range(s) == { s[x] : x \in DOMAIN s }

IsDuplicateFree(s) == \A x, y \in DOMAIN s : x # y => s[x] # s[y]

\* All duplicate-free sequences over S: the orders in which a Go map with key
\* set S can be ranged over, for every subset.
Orders(S) ==
    { s \in [1..Cardinality(S) -> S] : \A x, y \in DOMAIN s : x # y => s[x] # s[y] }

DuplicateFreeSeqs(S) == UNION { Orders(T) : T \in SUBSET S }

----------------------------------------------------------------------------
\* common.Result, restricted to what findLeafChildren reads.
\* A tree is [size, Children, Status, Error]: nodes are 1..size, node 1 is the
\* root, Children[x] is the ordered slice of x's children, Error[x] is whether
\* result.Error # nil.

StatusPending == "pending"
Statuses == { "approved", StatusPending, "disapproved", "skipped" }

NoTree == [ size |-> 0 ]
Root == 1

\* Parent vectors: node x > 1 hangs under a node with a smaller id; the children
\* of a node are ordered by id.  Every ordered tree has such a numbering.
ParentVectors(sz) == { p \in [2..sz -> 1..sz] : \A x \in 2..sz : p[x] < x }

RECURSIVE SortedSeq(_)
SortedSeq(S) ==
    IF S = {} THEN << >>
    ELSE LET m == CHOOSE x \in S : \A y \in S : x <= y
         IN << m >> \o SortedSeq(S \ {m})

TreeOf(sz, p, st, er) ==
    [ size |-> sz,
      Children |-> [ x \in 1..sz |-> SortedSeq({ c \in 2..sz : p[c] = x }) ],
      Status |-> st,
      Error |-> er ]

\* Lines 32-35: a node without children is returned iff it is pending and has
\* no error.
LeafCaseNoErrorCheck(t, x) ==
    IF t.Status[x] = StatusPending THEN << x >> ELSE << >>

LeafCase(t, x) ==
    IF t.Status[x] = StatusPending /\ ~t.Error[x] THEN << x >> ELSE << >>

\* Lines 30-44.
RECURSIVE findLeafChildren(_, _)
RECURSIVE RangeChildren(_, _, _)

\* Lines 37-41: the range loop over result.Children, from position c on.
RangeChildren(t, cs, c) ==
    IF c > Len(cs) THEN << >>
    ELSE (IF t.Status[cs[c]] = StatusPending
            THEN findLeafChildren(t, cs[c])
            ELSE << >>) \o RangeChildren(t, cs, c + 1)

findLeafChildren(t, x) ==
    IF Len(t.Children[x]) = 0
      THEN LeafCase(t, x)
      ELSE RangeChildren(t, t.Children[x], 1)

----------------------------------------------------------------------------
\* SpecWalk: one call of findLeafChildren.

IdleSample ==
    /\ n = 0 /\ users = << >> /\ i = 0 /\ j = 0 /\ selected = {}
    /\ selections = << >> /\ collisions = 0 /\ spc = "idle"

NoRule == [ Admins |-> FALSE, WriteCollaborators |-> FALSE ]
NoReturn == [ returned |-> FALSE, users |-> << >>, err |-> "" ]
EmptyMap == [ x \in {} |-> "" ]

IdleFind ==
    /\ author = "" /\ pendingLeafNodes = << >> /\ k = 0 /\ child = NoRule
    /\ allUsers = {} /\ teamErr = FALSE /\ orgErr = FALSE
    /\ allCollaboratorPermissions = EmptyMap /\ allUserList = << >>
    /\ requestedUsers = << >> /\ ret = NoReturn /\ pc = "idle"

IdleWalk == result = NoTree /\ leafNodes = << >> /\ wpc = "idle"

InitWalk ==
    /\ \E sz \in 1..MaxNodes :
         \E p \in ParentVectors(sz), st \in [1..sz -> Statuses], er \in [1..sz -> BOOLEAN] :
           result = TreeOf(sz, p, st, er)
    /\ leafNodes = << >>
    /\ wpc = "call"
    /\ IdleSample
    /\ IdleFind

Walk ==
    /\ wpc = "call"
    /\ leafNodes' = findLeafChildren(result, Root)
    /\ wpc' = "done"
    /\ UNCHANGED << result, sampleVars, findVars >>

NextWalk == Walk

SpecWalk == InitWalk /\ [][NextWalk]_vars

----------------------------------------------------------------------------
\* selectRandomUsers, lines 47-75, one evaluation of r.Intn per step.

\* Identities.  "admin" and "write" are logins that read like permission
\* levels; "d" never is a collaborator.
Ident == { "a", "admin", "write" }
IdentList == << "a", "admin", "write", "b", "c" >>

\* Line 61.
BudgetExceeded(jj, nn) == jj > nn * RetryFactor

\* Line 66, selected[m].
AlreadySelectedNever(sel, m) == FALSE

AlreadySelected(sel, m) == m \in sel

\* Lines 49-51.
SelectNone ==
    /\ spc = "call"
    /\ n = 0
    /\ selections' = << >>
    /\ spc' = "ret"
    /\ UNCHANGED << n, users, i, j, selected, collisions >>
    /\ UNCHANGED << walkVars, findVars >>

\* Lines 52-54.
SelectAll ==
    /\ spc = "call"
    /\ n # 0
    /\ n >= Len(users)
    /\ selections' = users
    /\ spc' = "ret"
    /\ UNCHANGED << n, users, i, j, selected, collisions >>
    /\ UNCHANGED << walkVars, findVars >>

\* Lines 56-58: entering the loops.
SelectBegin ==
    /\ spc = "call"
    /\ n # 0
    /\ n < Len(users)
    /\ selected' = {}
    /\ selections' = << >>
    /\ i' = 0
    /\ j' = 0
    /\ collisions' = 0
    /\ spc' = "loop"
    /\ UNCHANGED << n, users >>
    /\ UNCHANGED << walkVars, findVars >>

\* Lines 65-69, then 57: a draw of an index that was not chosen yet; the
\* outer loop goes on with a fresh j, or ends and line 74 returns (the
\* locals of the call are gone then).
DrawFresh ==
    /\ spc = "loop"
    /\ i < n
    /\ ~BudgetExceeded(j, n)
    /\ \E m \in 0..(Len(users) - 1) :
         /\ ~AlreadySelected(selected, m)
         /\ selections' = Append(selections, users[m + 1])
         /\ IF i + 1 < n
              THEN /\ selected' = selected \cup {m}
                   /\ i' = i + 1
                   /\ j' = 0
                   /\ UNCHANGED << collisions, spc >>
              ELSE /\ selected' = {}
                   /\ i' = 0
                   /\ j' = 0
                   /\ collisions' = 0
                   /\ spc' = "ret"
    /\ UNCHANGED << n, users >>
    /\ UNCHANGED << walkVars, findVars >>

\* Lines 65-66, 71: a draw of an index that was chosen before.
DrawCollision ==
    /\ spc = "loop"
    /\ i < n
    /\ ~BudgetExceeded(j, n)
    /\ \E m \in 0..(Len(users) - 1) : AlreadySelected(selected, m)
    /\ j' = j + 1
    /\ collisions' = collisions + 1
    /\ UNCHANGED << n, users, i, selected, selections, spc >>
    /\ UNCHANGED << walkVars, findVars >>

\* Lines 61-63.
BudgetExhausted ==
    /\ spc = "loop"
    /\ i < n
    /\ BudgetExceeded(j, n)
    /\ spc' = "panic"
    /\ UNCHANGED << n, users, i, j, selected, selections, collisions >>
    /\ UNCHANGED << walkVars, findVars >>

NextSample ==
    \/ SelectNone
    \/ SelectAll
    \/ SelectBegin
    \/ DrawFresh
    \/ DrawCollision
    \/ BudgetExhausted

\* Candidate lists of the sampler: duplicate-free, as the keys of a map are.
SampleIdent == { IdentList[x] : x \in 1..(MaxCount + 1) }

InitSample ==
    /\ n \in 0..MaxCount
    /\ users \in DuplicateFreeSeqs(SampleIdent)
    /\ i = 0 /\ j = 0 /\ selected = {} /\ selections = << >> /\ collisions = 0
    /\ spc = "call"
    /\ IdleWalk
    /\ IdleFind

SpecSample == InitSample /\ [][NextSample]_vars

----------------------------------------------------------------------------
\* FindRandomRequesters, lines 93-162.
\*
\* The tree is read-only and the loop of line 100 reads every field of a
\* leaf's ReviewRequestRule exactly once (Users on line 102, Teams on 104-105,
\* Organizations on 112-113, Admins on 126, WriteCollaborators on 136,
\* RequiredCount on 157), so the model draws each field at the step that
\* reads it; child keeps the two flags once they were read.  RequiredCount is
\* never negative.  The directory calls of prctx answer with an error or
\* with any listing over Ident.

\* common.GithubAdminPermission, common.GithubWritePermission (the strings of
\* lines 363 and 371) and a level that is neither.
GithubAdminPermission == "admin"
GithubWritePermission == "write"
Levels == { GithubAdminPermission, GithubWritePermission, "read" }

\* The values ListRepositoryCollaborators can return: identity -> level.
PermissionMaps == UNION { [S -> Levels] : S \in SUBSET Ident }

\* prctx.Author(): a collaborator-like identity, or somebody else.
Authors == { "a", "admin", "d" }

\* error values, by the message of errors.Wrap / errors.Wrapf; "" is nil.
NilError == ""
ErrCollaborators == "Unable to list repository collaborators"
ErrOrgMembers == "Unable to get member listing for org"

\* A fixed enumeration of a set, as one of the orders a listing can have.
RECURSIVE SetToSeq(_)
SetToSeq(S) ==
    IF S = {} THEN << >>
    ELSE LET x == CHOOSE y \in S : TRUE
         IN << x >> \o SetToSeq(S \ {x})

\* The listings a directory call can answer with.
MemberLists == { SetToSeq(S) : S \in SUBSET Ident }

\* Lines 77-81.
shoveIntoMap(m, u) == m \cup Range(u)

\* m[key] of a Go map[string]string: the zero value for a missing key.
Lookup(m, key) == IF key \in DOMAIN m THEN m[key] ELSE ""

\* Lines 127-132 and 137-142: "for _, c := range allCollaboratorPermissions"
\* binds c to the VALUES of the map (the permission levels), one per key;
\* c is appended when allCollaboratorPermissions[c] is the wanted level.
RECURSIVE CollectAtLevel(_, _, _)
CollectAtLevel(perms, keys, level) ==
    IF keys = << >> THEN << >>
    ELSE LET c == perms[Head(keys)]
         IN (IF Lookup(perms, c) = level THEN << c >> ELSE << >>)
              \o CollectAtLevel(perms, Tail(keys), level)

repoAdmins(perms) ==
    CollectAtLevel(perms, SetToSeq(DOMAIN perms), GithubAdminPermission)

repoCollaborators(perms) ==
    CollectAtLevel(perms, SetToSeq(DOMAIN perms), GithubWritePermission)

\* Lines 150-151.
EligibleAuthorKept(u, perms, auth) == u \in DOMAIN perms

Eligible(u, perms, auth) == u # auth /\ u \in DOMAIN perms

\* Lines 146-154, for one iteration order of the map allUsers.
RECURSIVE FilterEligible(_, _, _)
FilterEligible(order, perms, auth) ==
    IF order = << >> THEN << >>
    ELSE (IF Eligible(Head(order), perms, auth) THEN << Head(order) >> ELSE << >>)
           \o FilterEligible(Tail(order), perms, auth)

\* Line 123: return nil, errors.Wrap(err, ...).
ErrorReturnPartial(list, msg) == [ returned |-> TRUE, users |-> list, err |-> msg ]

ErrorReturn(list, msg) == [ returned |-> TRUE, users |-> << >>, err |-> msg ]

\* The locals of one iteration of the loop of line 100, before it starts.
LeafLocalsReset ==
    /\ child' = NoRule
    /\ allUsers' = {}
    /\ teamErr' = FALSE
    /\ orgErr' = FALSE
    /\ allCollaboratorPermissions' = EmptyMap
    /\ allUserList' = << >>

\* Lines 95-98.
Start ==
    /\ pc = "start"
    /\ \E sz \in 1..(MaxLeaves + 1) :
         \E p \in ParentVectors(sz), st \in [1..sz -> Statuses], er \in [1..sz -> BOOLEAN] :
           pendingLeafNodes' = findLeafChildren(TreeOf(sz, p, st, er), Root)
    /\ requestedUsers' = << >>
    /\ k' = 1
    /\ pc' = "range"
    /\ UNCHANGED << author, child, allUsers, teamErr, orgErr,
                    allCollaboratorPermissions, allUserList, ret >>
    /\ UNCHANGED << walkVars, sampleVars >>

\* Lines 100-102: the next leaf; its explicit users seed the pool.
NextLeaf ==
    /\ pc = "range"
    /\ k <= Len(pendingLeafNodes)
    /\ \E Users \in MemberLists : allUsers' = shoveIntoMap({}, Users)
    /\ pc' = "teams"
    /\ UNCHANGED << author, pendingLeafNodes, k, child, teamErr, orgErr,
                    allCollaboratorPermissions, allUserList, requestedUsers, ret >>
    /\ UNCHANGED << walkVars, sampleVars >>

\* Line 104 with no team in the rule.
SkipTeams ==
    /\ pc = "teams"
    /\ pc' = "orgs"
    /\ UNCHANGED << author, pendingLeafNodes, k, child, allUsers, teamErr,
                    orgErr, allCollaboratorPermissions, allUserList, requestedUsers, ret >>
    /\ UNCHANGED << walkVars, sampleVars >>

\* Lines 105-109 and 83-91: ListTeamMembers fails; selectTeamMembers returns
\* nil, which is shoved into the pool.
TeamListingFails ==
    /\ pc = "teams"
    /\ teamErr' = TRUE
    /\ allUsers' = shoveIntoMap(allUsers, << >>)
    /\ pc' = "orgs"
    /\ UNCHANGED << author, pendingLeafNodes, k, child, orgErr,
                    allCollaboratorPermissions, allUserList, requestedUsers, ret >>
    /\ UNCHANGED << walkVars, sampleVars >>

\* Lines 105-109 and 83-91: the members of the team drawn on line 84.
TeamListingSucceeds ==
    /\ pc = "teams"
    /\ \E members \in MemberLists : allUsers' = shoveIntoMap(allUsers, members)
    /\ pc' = "orgs"
    /\ UNCHANGED << author, pendingLeafNodes, k, child, teamErr, orgErr,
                    allCollaboratorPermissions, allUserList, requestedUsers, ret >>
    /\ UNCHANGED << walkVars, sampleVars >>

\* Line 112 with no organization in the rule.
SkipOrgs ==
    /\ pc = "orgs"
    /\ pc' = "collab"
    /\ UNCHANGED << author, pendingLeafNodes, k, child, allUsers, teamErr,
                    orgErr, allCollaboratorPermissions, allUserList, requestedUsers, ret >>
    /\ UNCHANGED << walkVars, sampleVars >>

\* What line 357 of the other revision does on the same failure.
OrgListingFailsFatal ==
    /\ pc = "orgs"
    /\ orgErr' = TRUE
    /\ ret' = ErrorReturn(requestedUsers, ErrOrgMembers)
    /\ pc' = "returned"
    /\ UNCHANGED << author, pendingLeafNodes, k, child, allUsers, teamErr,
                    allCollaboratorPermissions, allUserList, requestedUsers >>
    /\ UNCHANGED << walkVars, sampleVars >>

\* Lines 113-118: ListOrganizationMembers fails; a warning, and the nil
\* listing is shoved into the pool.
OrgListingFails ==
    /\ pc = "orgs"
    /\ orgErr' = TRUE
    /\ allUsers' = shoveIntoMap(allUsers, << >>)
    /\ pc' = "collab"
    /\ UNCHANGED << author, pendingLeafNodes, k, child, teamErr,
                    allCollaboratorPermissions, allUserList, requestedUsers, ret >>
    /\ UNCHANGED << walkVars, sampleVars >>

\* Lines 113-118.
OrgListingSucceeds ==
    /\ pc = "orgs"
    /\ \E members \in MemberLists : allUsers' = shoveIntoMap(allUsers, members)
    /\ pc' = "collab"
    /\ UNCHANGED << author, pendingLeafNodes, k, child, teamErr, orgErr,
                    allCollaboratorPermissions, allUserList, requestedUsers, ret >>
    /\ UNCHANGED << walkVars, sampleVars >>

\* Lines 121-124: ListRepositoryCollaborators fails.
CollaboratorsFail ==
    /\ pc = "collab"
    /\ ret' = ErrorReturn(requestedUsers, ErrCollaborators)
    /\ pc' = "returned"
    /\ UNCHANGED << author, pendingLeafNodes, k, child, allUsers, teamErr,
                    orgErr, allCollaboratorPermissions, allUserList, requestedUsers >>
    /\ UNCHANGED << walkVars, sampleVars >>

\* Line 121.  The err of each listing block (lines 105 and 114) is long out
\* of scope here; the model keeps the two flags up to this step.
CollaboratorsListed ==
    /\ pc = "collab"
    /\ allCollaboratorPermissions' \in PermissionMaps
    /\ teamErr' = FALSE
    /\ orgErr' = FALSE
    /\ pc' = "admins"
    /\ UNCHANGED << author, pendingLeafNodes, k, child, allUsers, allUserList,
                    requestedUsers, ret >>
    /\ UNCHANGED << walkVars, sampleVars >>

\* Lines 126-134.
ExpandAdmins ==
    /\ pc = "admins"
    /\ \E Admins \in BOOLEAN :
         /\ child' = [child EXCEPT !.Admins = Admins]
         /\ allUsers' = IF Admins
                          THEN shoveIntoMap(allUsers, repoAdmins(allCollaboratorPermissions))
                          ELSE allUsers
    /\ pc' = "write"
    /\ UNCHANGED << author, pendingLeafNodes, k, teamErr, orgErr,
                    allCollaboratorPermissions, allUserList, requestedUsers, ret >>
    /\ UNCHANGED << walkVars, sampleVars >>

\* Lines 136-144.
ExpandWriteCollaborators ==
    /\ pc = "write"
    /\ \E WriteCollaborators \in BOOLEAN :
         /\ child' = [child EXCEPT !.WriteCollaborators = WriteCollaborators]
         /\ allUsers' = IF WriteCollaborators
                          THEN shoveIntoMap(allUsers,
                                            repoCollaborators(allCollaboratorPermissions))
                          ELSE allUsers
    /\ pc' = "filter"
    /\ UNCHANGED << author, pendingLeafNodes, k, teamErr, orgErr,
                    allCollaboratorPermissions, allUserList, requestedUsers, ret >>
    /\ UNCHANGED << walkVars, sampleVars >>

\* Lines 146-156: the eligible candidates, in the order in which the map
\* allUsers is ranged over.
Filter ==
    /\ pc = "filter"
    /\ \E order \in Orders(allUsers) :
         allUserList' = FilterEligible(order, allCollaboratorPermissions, author)
    /\ pc' = "call"
    /\ UNCHANGED << author, pendingLeafNodes, k, child, allUsers, teamErr, orgErr,
                    allCollaboratorPermissions, requestedUsers, ret >>
    /\ UNCHANGED << walkVars, sampleVars >>

\* Line 157: the call of selectRandomUsers.  No later line reads child,
\* allUsers or allCollaboratorPermissions: the model drops them here.
CallSelect ==
    /\ pc = "call"
    /\ n' \in 0..MaxCount
    /\ users' = allUserList
    /\ spc' = "call"
    /\ pc' = "select"
    /\ child' = NoRule
    /\ allUsers' = {}
    /\ allCollaboratorPermissions' = EmptyMap
    /\ UNCHANGED << i, j, selected, selections, collisions >>
    /\ UNCHANGED << author, pendingLeafNodes, k, teamErr, orgErr, allUserList,
                    requestedUsers, ret >>
    /\ UNCHANGED walkVars

\* Lines 157-158: selectRandomUsers returned; the iteration ends.
Accumulate ==
    /\ pc = "select"
    /\ spc = "ret"
    /\ requestedUsers' = requestedUsers \o selections
    /\ k' = k + 1
    /\ pc' = "range"
    /\ LeafLocalsReset
    /\ n' = 0 /\ users' = << >> /\ i' = 0 /\ j' = 0 /\ selected' = {}
    /\ selections' = << >> /\ collisions' = 0 /\ spc' = "idle"
    /\ UNCHANGED << author, pendingLeafNodes, ret >>
    /\ UNCHANGED walkVars

\* Line 161.
Return ==
    /\ pc = "range"
    /\ k > Len(pendingLeafNodes)
    /\ ret' = [ returned |-> TRUE, users |-> requestedUsers, err |-> NilError ]
    /\ pc' = "returned"
    /\ UNCHANGED << author, pendingLeafNodes, k, child, allUsers, teamErr,
                    orgErr, allCollaboratorPermissions, allUserList, requestedUsers >>
    /\ UNCHANGED << walkVars, sampleVars >>

Init ==
    /\ author \in Authors
    /\ pendingLeafNodes = << >> /\ k = 0 /\ child = NoRule
    /\ allUsers = {} /\ teamErr = FALSE /\ orgErr = FALSE
    /\ allCollaboratorPermissions = EmptyMap /\ allUserList = << >>
    /\ requestedUsers = << >> /\ ret = NoReturn
    /\ pc = "start"
    /\ IdleWalk
    /\ IdleSample

Next ==
    \/ Start
    \/ NextLeaf
    \/ SkipTeams
    \/ TeamListingFails
    \/ TeamListingSucceeds
    \/ SkipOrgs
    \/ OrgListingFails
    \/ OrgListingSucceeds
    \/ CollaboratorsFail
    \/ CollaboratorsListed
    \/ ExpandAdmins
    \/ ExpandWriteCollaborators
    \/ Filter
    \/ CallSelect
    \/ SelectNone
    \/ SelectAll
    \/ SelectBegin
    \/ DrawFresh
    \/ DrawCollision
    \/ BudgetExhausted
    \/ Accumulate
    \/ Return

Spec == Init /\ [][Next]_vars

----------------------------------------------------------------------------
\* FindRandomRequesters of the revision of lines 178-395 (lines 324-395), with
\* its own selectRandomUsers (lines 299-322).  Here allUsers is a slice; the
\* rule's fields are RequestedUsers, RequestedTeams, ... and, as above, each
\* is drawn where it is read, except RequestedUsers.  Its program counter
\* values start with c_.
\*
\* findLeafChildren returns copies of the tree's nodes ([]common.Result), and
\* a copy's RequestedUsers names the same array as the tree's.  Line 333 makes
\* allUsers one more name of that array, the appends of lines 348, 359, 367
\* and 375 keep the array when the added elements fit its capacity, and the
\* loop of lines 380-386 writes through allUsers: what it writes below
\* len(child.RequestedUsers) is seen through child and through the tree.
\* pendingLeafNodes is therefore a sequence of records [node, RequestedUsers,
\* Cap] that holds the leaves' arrays as the tree sees them, child is the
\* leaf's copy with Shared telling whether allUsers names the same array.
\* The slots between len and cap of the array are visible to nobody but
\* allUsers and are not kept.

ErrAdminListing == "Unable to get admin listing"

NoClientRule == [ RequestedUsers |-> << >>, Cap |-> 0, Shared |-> FALSE ]

\* append(s, xs...) for a slice s of capacity cap: the array of s is kept when
\* the result fits (always when xs is empty), else a new array is allocated.
AppendKeepsArray(s, cap, xs) == Len(s) + Len(xs) <= cap

\* Lines 380-386: "for i, u := range allUsers" ranges over the slice as it was
\* when the loop started (arr, all of it), reading arr[idx] when it gets there,
\* while the body moves the last element of the current slice (arr[1..cur])
\* into the author's place, clears the last slot and shortens the slice.  A
\* cleared slot holds "", never the author, so idx <= cur whenever u = auth.
\* The result is the array after the loop and the length of allUsers.
RECURSIVE RemoveAuthorFrom(_, _, _, _)
RemoveAuthorFrom(arr, cur, idx, auth) ==
    IF idx > Len(arr) THEN [ array |-> arr, len |-> cur ]
    ELSE IF arr[idx] = auth
           THEN RemoveAuthorFrom([[arr EXCEPT ![idx] = arr[cur]] EXCEPT ![cur] = ""],
                                 cur - 1, idx + 1, auth)
           ELSE RemoveAuthorFrom(arr, cur, idx + 1, auth)

RemoveAuthor(list, auth) == RemoveAuthorFrom(list, Len(list), 1, auth)

clientLeafVars == << child, allUsers >>
clientCallVars == << author, pendingLeafNodes, k, requestedUsers, ret >>
clientUnused == << teamErr, orgErr, allCollaboratorPermissions, allUserList,
                   j, collisions >>

\* Lines 326-330.
ClientStart ==
    /\ pc = "c_start"
    /\ \E sz \in 1..(MaxLeaves + 1) :
         \E p \in ParentVectors(sz), st \in [1..sz -> Statuses], er \in [1..sz -> BOOLEAN] :
           LET leaves == findLeafChildren(TreeOf(sz, p, st, er), Root) IN
             \E ru \in [1..Len(leaves) -> MemberLists],
                spare \in [1..Len(leaves) -> 0..MaxSpare] :
               pendingLeafNodes' =
                   [ x \in 1..Len(leaves) |->
                       [ node |-> leaves[x],
                         RequestedUsers |-> ru[x],
                         Cap |-> Len(ru[x]) + spare[x] ] ]
    /\ requestedUsers' = << >>
    /\ k' = 1
    /\ pc' = "c_range"
    /\ UNCHANGED << author, ret, clientLeafVars, clientUnused >>
    /\ UNCHANGED << walkVars, n, users, i, selected, selections, spc >>

\* Lines 332-333.
ClientNextLeaf ==
    /\ pc = "c_range"
    /\ k <= Len(pendingLeafNodes)
    /\ child' = [ RequestedUsers |-> pendingLeafNodes[k].RequestedUsers,
                  Cap |-> pendingLeafNodes[k].Cap,
                  Shared |-> TRUE ]
    /\ allUsers' = pendingLeafNodes[k].RequestedUsers
    /\ pc' = "c_teams"
    /\ UNCHANGED << clientCallVars, clientUnused >>
    /\ UNCHANGED << walkVars, n, users, i, selected, selections, spc >>

\* Line 335 with no team in the rule.
ClientSkipTeams ==
    /\ pc = "c_teams"
    /\ pc' = "c_orgs"
    /\ UNCHANGED << clientCallVars, clientLeafVars, clientUnused >>
    /\ UNCHANGED << walkVars, n, users, i, selected, selections, spc >>

\* Lines 338-346: GetTeamBySlug or listAllTeamMembers fails; logged only.
ClientTeamListingFails ==
    /\ pc = "c_teams"
    /\ pc' = "c_orgs"
    /\ UNCHANGED << clientCallVars, clientLeafVars, clientUnused >>
    /\ UNCHANGED << walkVars, n, users, i, selected, selections, spc >>

\* Lines 343-348: allUsers, still child.RequestedUsers, is appended to.
ClientTeamListingSucceeds ==
    /\ pc = "c_teams"
    /\ \E members \in MemberLists :
         /\ allUsers' = allUsers \o members
         /\ child' = [child EXCEPT !.Shared =
                          AppendKeepsArray(allUsers, child.Cap, members)]
    /\ pc' = "c_orgs"
    /\ UNCHANGED << clientCallVars, clientUnused >>
    /\ UNCHANGED << walkVars, n, users, i, selected, selections, spc >>

\* Line 353 with no organization in the rule.
ClientSkipOrgs ==
    /\ pc = "c_orgs"
    /\ pc' = "c_admins"
    /\ UNCHANGED << clientCallVars, clientLeafVars, clientUnused >>
    /\ UNCHANGED << walkVars, n, users, i, selected, selections, spc >>

\* Lines 355-358.
ClientOrgListingFails ==
    /\ pc = "c_orgs"
    /\ ret' = ErrorReturn(requestedUsers, ErrOrgMembers)
    /\ pc' = "c_returned"
    /\ UNCHANGED << author, pendingLeafNodes, k, requestedUsers, clientLeafVars,
                    clientUnused >>
    /\ UNCHANGED << walkVars, n, users, i, selected, selections, spc >>

\* Lines 355-359: allUsers = append(child.RequestedUsers, orgMembers...).
ClientOrgListingSucceeds ==
    /\ pc = "c_orgs"
    /\ \E orgMembers \in MemberLists :
         /\ allUsers' = child.RequestedUsers \o orgMembers
         /\ child' = [child EXCEPT !.Shared =
                          AppendKeepsArray(child.RequestedUsers, child.Cap, orgMembers)]
    /\ pc' = "c_admins"
    /\ UNCHANGED << clientCallVars, clientUnused >>
    /\ UNCHANGED << walkVars, n, users, i, selected, selections, spc >>

\* Line 362 with RequestedAdmins false.
ClientSkipAdmins ==
    /\ pc = "c_admins"
    /\ pc' = "c_write"
    /\ UNCHANGED << clientCallVars, clientLeafVars, clientUnused >>
    /\ UNCHANGED << walkVars, n, users, i, selected, selections, spc >>

\* Lines 363-366.
ClientAdminListingFails ==
    /\ pc = "c_admins"
    /\ ret' = ErrorReturn(requestedUsers, ErrAdminListing)
    /\ pc' = "c_returned"
    /\ UNCHANGED << author, pendingLeafNodes, k, requestedUsers, clientLeafVars,
                    clientUnused >>
    /\ UNCHANGED << walkVars, n, users, i, selected, selections, spc >>

\* Lines 363-367: allUsers = append(child.RequestedUsers, repoAdmins...).
ClientAdminListingSucceeds ==
    /\ pc = "c_admins"
    /\ \E admins \in MemberLists :
         /\ allUsers' = child.RequestedUsers \o admins
         /\ child' = [child EXCEPT !.Shared =
                          AppendKeepsArray(child.RequestedUsers, child.Cap, admins)]
    /\ pc' = "c_write"
    /\ UNCHANGED << clientCallVars, clientUnused >>
    /\ UNCHANGED << walkVars, n, users, i, selected, selections, spc >>

\* Line 370 with RequestedWriteCollaborators false.
ClientSkipWrite ==
    /\ pc = "c_write"
    /\ pc' = "c_remove"
    /\ UNCHANGED << clientCallVars, clientLeafVars, clientUnused >>
    /\ UNCHANGED << walkVars, n, users, i, selected, selections, spc >>

\* Lines 371-374.
ClientWriteListingFails ==
    /\ pc = "c_write"
    /\ ret' = ErrorReturn(requestedUsers, ErrAdminListing)
    /\ pc' = "c_returned"
    /\ UNCHANGED << author, pendingLeafNodes, k, requestedUsers, clientLeafVars,
                    clientUnused >>
    /\ UNCHANGED << walkVars, n, users, i, selected, selections, spc >>

\* Lines 371-375: allUsers = append(child.RequestedUsers, repoCollaborators...).
ClientWriteListingSucceeds ==
    /\ pc = "c_write"
    /\ \E writers \in MemberLists :
         /\ allUsers' = child.RequestedUsers \o writers
         /\ child' = [child EXCEPT !.Shared =
                          AppendKeepsArray(child.RequestedUsers, child.Cap, writers)]
    /\ pc' = "c_remove"
    /\ UNCHANGED << clientCallVars, clientUnused >>
    /\ UNCHANGED << walkVars, n, users, i, selected, selections, spc >>

\* Lines 378-388 and 300-303: the author is removed, selectRandomUsers is
\* called.  When allUsers names the array of child.RequestedUsers, the
\* loop's writes show in child.RequestedUsers and in the tree's leaf.
ClientRemoveAuthorAndSelect ==
    /\ pc = "c_remove"
    /\ LET removed == RemoveAuthor(allUsers, author)
           seen == IF child.Shared
                     THEN SubSeq(removed.array, 1, Len(child.RequestedUsers))
                     ELSE child.RequestedUsers
       IN /\ allUsers' = SubSeq(removed.array, 1, removed.len)
          /\ child' = [child EXCEPT !.RequestedUsers = seen]
          /\ pendingLeafNodes' =
                 [pendingLeafNodes EXCEPT ![k].RequestedUsers = seen]
    /\ users' = allUsers'
    /\ n' \in 0..MaxCount
    /\ selected' = {}
    /\ selections' = << >>
    /\ i' = 0
    /\ spc' = "c_call"
    /\ pc' = "c_select"
    /\ UNCHANGED << author, k, requestedUsers, ret, clientUnused >>
    /\ UNCHANGED walkVars

\* Lines 304-306.
ClientSelectNone ==
    /\ spc = "c_call"
    /\ n = 0
    /\ selections' = << >>
    /\ spc' = "c_ret"
    /\ UNCHANGED << n, users, i, selected >>
    /\ UNCHANGED << walkVars, pc, clientCallVars, clientLeafVars, clientUnused >>

\* Lines 307-309.
ClientSelectAll ==
    /\ spc = "c_call"
    /\ n # 0
    /\ n >= Len(users)
    /\ selections' = users
    /\ spc' = "c_ret"
    /\ UNCHANGED << n, users, i, selected >>
    /\ UNCHANGED << walkVars, pc, clientCallVars, clientLeafVars, clientUnused >>

\* Line 311: entering the loops.
ClientSelectBegin ==
    /\ spc = "c_call"
    /\ n # 0
    /\ n < Len(users)
    /\ spc' = "c_loop"
    /\ UNCHANGED << n, users, i, selected, selections >>
    /\ UNCHANGED << walkVars, pc, clientCallVars, clientLeafVars, clientUnused >>

\* Lines 312-319, then 311 and 321: one draw; an index drawn before changes
\* nothing and the inner loop draws again (there is no retry budget here).
ClientDraw ==
    /\ spc = "c_loop"
    /\ i < n
    /\ \E m \in 0..(Len(users) - 1) :
         IF m \in selected
           THEN UNCHANGED << i, selected, selections, spc >>
           ELSE /\ selections' = Append(selections, users[m + 1])
                /\ IF i + 1 < n
                     THEN /\ selected' = selected \cup {m}
                          /\ i' = i + 1
                          /\ UNCHANGED spc
                     ELSE /\ selected' = {}
                          /\ i' = 0
                          /\ spc' = "c_ret"
    /\ UNCHANGED << n, users >>
    /\ UNCHANGED << walkVars, pc, clientCallVars, clientLeafVars, clientUnused >>

\* Lines 388-391.
ClientAccumulate ==
    /\ pc = "c_select"
    /\ spc = "c_ret"
    /\ requestedUsers' = requestedUsers \o selections
    /\ k' = k + 1
    /\ pc' = "c_range"
    /\ child' = NoClientRule
    /\ allUsers' = << >>
    /\ n' = 0 /\ users' = << >> /\ i' = 0 /\ selected' = {}
    /\ selections' = << >> /\ spc' = "idle"
    /\ UNCHANGED << author, pendingLeafNodes, ret, clientUnused >>
    /\ UNCHANGED walkVars

\* Lines 393-394.
ClientReturn ==
    /\ pc = "c_range"
    /\ k > Len(pendingLeafNodes)
    /\ ret' = [ returned |-> TRUE, users |-> requestedUsers, err |-> NilError ]
    /\ pc' = "c_returned"
    /\ UNCHANGED << author, pendingLeafNodes, k, requestedUsers, clientLeafVars,
                    clientUnused >>
    /\ UNCHANGED << walkVars, n, users, i, selected, selections, spc >>

InitClient ==
    /\ author \in Authors
    /\ pendingLeafNodes = << >> /\ k = 0 /\ child = NoClientRule
    /\ allUsers = << >> /\ teamErr = FALSE /\ orgErr = FALSE
    /\ allCollaboratorPermissions = EmptyMap /\ allUserList = << >>
    /\ requestedUsers = << >> /\ ret = NoReturn
    /\ pc = "c_start"
    /\ IdleWalk
    /\ IdleSample

NextClient ==
    \/ ClientStart
    \/ ClientNextLeaf
    \/ ClientSkipTeams
    \/ ClientTeamListingFails
    \/ ClientTeamListingSucceeds
    \/ ClientSkipOrgs
    \/ ClientOrgListingFails
    \/ ClientOrgListingSucceeds
    \/ ClientSkipAdmins
    \/ ClientAdminListingFails
    \/ ClientAdminListingSucceeds
    \/ ClientSkipWrite
    \/ ClientWriteListingFails
    \/ ClientWriteListingSucceeds
    \/ ClientRemoveAuthorAndSelect
    \/ ClientSelectNone
    \/ ClientSelectAll
    \/ ClientSelectBegin
    \/ ClientDraw
    \/ ClientAccumulate
    \/ ClientReturn

SpecClient == InitClient /\ [][NextClient]_vars

----------------------------------------------------------------------------
\* Properties of findLeafChildren (SpecWalk).

IsLeaf(t, x) == Len(t.Children[x]) = 0

Parent(t, x) == CHOOSE y \in 1..t.size : x \in Range(t.Children[y])

RECURSIVE Ancestors(_, _)
Ancestors(t, x) ==
    IF x = Root THEN {} ELSE {Parent(t, x)} \cup Ancestors(t, Parent(t, x))

\* The positions, from the root down, of the children that lead to x.
RECURSIVE PathTo(_, _)
PathTo(t, x) ==
    IF x = Root THEN << >>
    ELSE LET y == Parent(t, x)
             pos == CHOOSE c \in DOMAIN t.Children[y] : t.Children[y][c] = x
         IN Append(PathTo(t, y), pos)

\* x is to the left of y: where their paths part, x's goes through an earlier child.
LeftOf(t, x, y) ==
    LET px == PathTo(t, x)
        py == PathTo(t, y)
    IN \E d \in (DOMAIN px) \cap (DOMAIN py) :
         /\ \A e \in 1..(d - 1) : px[e] = py[e]
         /\ px[d] < py[d]

\* C4: no node returned by findLeafChildren has an ancestor, the root
\* included, whose status is not pending.
C4_NoNonPendingAncestor ==
    wpc = "done" =>
        \A x \in Range(leafNodes) :
            \A a \in Ancestors(result, x) : result.Status[a] = StatusPending

\* C5: every node returned by findLeafChildren has no children, is pending
\* and carries no error; the nodes come in left-to-right order, each at most
\* once; a tree without such a node yields the empty sequence.
C5_PendingLeavesInOrder ==
    wpc = "done" =>
        /\ \A x \in Range(leafNodes) :
              /\ x \in 1..result.size
              /\ IsLeaf(result, x)
              /\ result.Status[x] = StatusPending
              /\ ~result.Error[x]
        /\ \A a, b \in DOMAIN leafNodes :
              a < b => LeftOf(result, leafNodes[a], leafNodes[b])
        /\ IsDuplicateFree(leafNodes)
        /\ (~\E x \in 1..result.size :
               IsLeaf(result, x) /\ result.Status[x] = StatusPending /\ ~result.Error[x])
             => leafNodes = << >>

\* A walk that returned two leaves, the later one under a deeper branch, and
\* left out a pending leaf that carries an error.
C5_Witness ==
    /\ wpc = "done"
    /\ Len(leafNodes) >= 2
    /\ \E x \in 1..result.size :
         /\ IsLeaf(result, x) /\ result.Status[x] = StatusPending /\ result.Error[x]
         /\ \A a \in Ancestors(result, x) : result.Status[a] = StatusPending
         /\ x \notin Range(leafNodes)

----------------------------------------------------------------------------
\* Properties of selectRandomUsers (SpecSample).

\* C2: when selectRandomUsers returns, n = 0 gives the empty list, n >= m
\* gives the input list in its order, and 0 < n < m gives exactly n pairwise
\* distinct elements of the input; never more than n or m elements.
C2_SamplerResult ==
    spc = "ret" =>
        /\ (n = 0 => selections = << >>)
        /\ (n >= Len(users) => selections = users)
        /\ (n > 0 /\ n < Len(users) =>
              /\ Len(selections) = n
              /\ IsDuplicateFree(selections)
              /\ Range(selections) \subseteq Range(users))
        /\ Len(selections) <= n
        /\ Len(selections) <= Len(users)

\* The sampler returned from the loop with two selections out of three.
C2_Witness ==
    /\ spc = "ret"
    /\ n = 2
    /\ Len(users) = 3
    /\ Len(selections) = 2

\* C8: the colliding draws of one call, summed over all its selections,
\* never exceed the budget of 5 * n.
C8_TotalCollisionsWithinBudget ==
    spc \in { "loop", "ret", "panic" } => collisions <= RetryFactor * n

\* C9: with 0 < n < len(users) the abort of line 63 is never reached.
C9_NeverPanics ==
    (n > 0 /\ n < Len(users)) => spc # "panic"

----------------------------------------------------------------------------
\* Properties of FindRandomRequesters (Spec, SpecClient).

\* C1: the candidates of a leaf are keys of the permission map fetched for
\* that leaf and are not the author, a leaf's selection holds candidates
\* only, and so the author is in no list accumulated or returned.
C1_SelectionsAreEligible ==
    /\ pc = "call" =>
          \A u \in Range(allUserList) :
              u \in DOMAIN allCollaboratorPermissions /\ u # author
    /\ pc = "select" =>
          /\ users = allUserList
          /\ author \notin Range(allUserList)
          /\ (spc = "ret" => Range(selections) \subseteq Range(allUserList))
    /\ \A u \in Range(requestedUsers) : u # author
    /\ \A u \in Range(ret.users) : u # author

\* The pool of a leaf held the author and a non-collaborator, and the filter
\* left candidates.
C1_Witness ==
    /\ pc = "call"
    /\ allUserList # << >>
    /\ author \in allUsers
    /\ \E u \in allUsers : u \notin DOMAIN allCollaboratorPermissions

HasLevel(u, level) ==
    u \in DOMAIN allCollaboratorPermissions /\ allCollaboratorPermissions[u] = level

WantedByFlags(u) ==
    \/ child.Admins /\ HasLevel(u, GithubAdminPermission)
    \/ child.WriteCollaborators /\ HasLevel(u, GithubWritePermission)

\* C3: when the rule sets Admins (WriteCollaborators), every identity whose
\* level in the permission map is admin (write) is in the pool after the
\* expansion and, unless it is the author, among the candidates handed to
\* selectRandomUsers.
C3_AdminsAndWritersInPool ==
    /\ pc \in { "filter", "call" } =>
          \A u \in Ident : WantedByFlags(u) => u \in allUsers
    /\ pc = "call" =>
          \A u \in Ident : (WantedByFlags(u) /\ u # author) => u \in Range(allUserList)

\* C6: a failed team or organization listing leaves the pool as it was and
\* lets the leaf go on; the only error the call returns is the collaborator
\* listing's; the candidates are the eligible identities of the pool.
C6_ListingFailuresAreNotFatal ==
    /\ [](ret.err \in { NilError, ErrCollaborators })
    /\ [](pc = "call" =>
            Range(allUserList) =
              { u \in allUsers : u \in DOMAIN allCollaboratorPermissions /\ u # author })
    /\ []((pc = "select" /\ spc = "ret") => Range(selections) \subseteq Range(allUserList))
    /\ [][(~teamErr /\ teamErr') => (allUsers' = allUsers /\ pc' = "orgs")]_vars
    /\ [][(~orgErr /\ orgErr') => (allUsers' = allUsers /\ pc' = "collab")]_vars

\* Both listings of a leaf failed and the leaf went on with a pool.
C6_Witness ==
    /\ pc = "collab"
    /\ teamErr
    /\ orgErr
    /\ allUsers # {}

\* C7: when ListRepositoryCollaborators fails the call returns the error and
\* a nil list, whatever was accumulated, and nothing is processed after it.
C7_CollaboratorFailureReturnsNil ==
    ret.err = ErrCollaborators =>
        /\ ret.returned
        /\ ret.users = << >>
        /\ pc = "returned"
        /\ spc = "idle"
        /\ k <= Len(pendingLeafNodes)

\* The listing failed for the second leaf, after the first leaf's selection
\* had been accumulated.
C7_Witness ==
    /\ ret.err = ErrCollaborators
    /\ requestedUsers # << >>
    /\ k = 2

\* The steps that resolve the pool of a leaf, and the pool as a set.
ResolvePcs == { "teams", "orgs", "collab", "admins", "write", "filter", "call",
                "c_teams", "c_orgs", "c_admins", "c_write", "c_remove" }

PoolSet ==
    IF pc \in { "c_teams", "c_orgs", "c_admins", "c_write", "c_remove" }
      THEN Range(allUsers)
      ELSE allUsers

\* C10: in both revisions, while the pool of a leaf is resolved, a step that
\* adds a source never drops an identity that was in the pool.
C10_PoolIsAdditive ==
    [][(pc \in ResolvePcs /\ pc' \in ResolvePcs) => PoolSet \subseteq PoolSet']_vars

====
